---- MODULE Spec2Model ----
(***************************************************************************)
(* HousingCostMap (src/map_app.js): the rent-versus-mortgage computation,  *)
(* the projected table with its sort and filter, and the map styling.      *)
(*                                                                         *)
(* JavaScript numbers are modelled as exact rationals [k, n, d] in lowest  *)
(* terms, together with the special values null, undefined and Infinity.   *)
(* Strings are sequences of one-character strings.                         *)
(***************************************************************************)
EXTENDS Integers, Sequences, FiniteSets

(***************************************************************************)
(* Values                                                                  *)
(***************************************************************************)
Abs(x) == IF x < 0 THEN -x ELSE x

RECURSIVE GCD(_, _)
GCD(a, b) == IF b = 0 THEN a ELSE GCD(b, a % b)

\* The number n/d, in lowest terms with a positive denominator.
Reduced(n, d, g) ==
    IF d < 0 THEN [k |-> "num", n |-> -(n \div g), d |-> -(d \div g)]
    ELSE [k |-> "num", n |-> n \div g, d |-> d \div g]

Num(n, d) == Reduced(n, d, GCD(Abs(n), Abs(d)))

Whole(n) == [k |-> "num", n |-> n, d |-> 1]
Null == [k |-> "null", n |-> 0, d |-> 1]
Undefined == [k |-> "undefined", n |-> 0, d |-> 1]
Infinity == [k |-> "inf", n |-> 1, d |-> 1]

IsNum(v) == v.k = "num"
\* v == null in JavaScript: true of null and of undefined.
IsNullish(v) == v.k \in {"null", "undefined"}
\* !v in JavaScript, for the values modelled.
Falsy(v) == IsNullish(v) \/ (IsNum(v) /\ v.n = 0)

\* a * b, cancelling across before multiplying.
RMul(a, b) ==
    LET g1 == GCD(Abs(a.n), b.d)
        g2 == GCD(Abs(b.n), a.d)
    IN  IF a.n = 0 \/ b.n = 0 THEN Whole(0)
        ELSE [k |-> "num", n |-> (a.n \div g1) * (b.n \div g2),
                           d |-> (a.d \div g2) * (b.d \div g1)]

RInv(a) == Num(a.d, a.n)
RDiv(a, b) == RMul(a, RInv(b))

\* a + b over the least common denominator, g the gcd of the denominators.
AddOver(a, b, g) == Num(a.n * (b.d \div g) + b.n * (a.d \div g), (a.d \div g) * b.d)

RAdd(a, b) == AddOver(a, b, GCD(a.d, b.d))

RNeg(a) == [k |-> "num", n |-> -a.n, d |-> a.d]
RSub(a, b) == RAdd(a, RNeg(b))

Floor(a) == a.n \div a.d

\* The sign of a - b, by the continued-fraction expansion (no products).
RECURSIVE RCmp(_, _)
RCmp(a, b) ==
    LET fa == Floor(a)
        fb == Floor(b)
        ra == a.n - fa * a.d
        rb == b.n - fb * b.d
    IN  IF fa # fb THEN (IF fa < fb THEN -1 ELSE 1)
        ELSE IF ra = 0 /\ rb = 0 THEN 0
        ELSE IF ra = 0 THEN -1
        ELSE IF rb = 0 THEN 1
        ELSE RCmp([k |-> "num", n |-> b.d, d |-> rb],
                  [k |-> "num", n |-> a.d, d |-> ra])

RLt(a, b) == RCmp(a, b) < 0
RLe(a, b) == RCmp(a, b) <= 0
RMax(a, b) == IF RLt(a, b) THEN b ELSE a

\* Math.pow(base, e) for a whole number e of periods.
RECURSIVE RPow(_, _)
RPow(base, e) == IF e = 0 THEN Whole(1) ELSE RMul(base, RPow(base, e - 1))

(***************************************************************************)
(* Strings                                                                 *)
(***************************************************************************)
\* String.prototype.toLowerCase, on the letters the model uses.
LowerChar(c) ==
    CASE c = "E" -> "e"
      [] c = "P" -> "p"
      [] c = "S" -> "s"
      [] OTHER -> c

ToLowerCase(s) == [i \in 1..Len(s) |-> LowerChar(s[i])]

\* String.prototype.trim: leading and trailing blanks removed.
RECURSIVE TrimLeft(_)
TrimLeft(s) == IF s # <<>> /\ Head(s) = " " THEN TrimLeft(Tail(s)) ELSE s

RECURSIVE TrimRight(_)
TrimRight(s) ==
    IF s # <<>> /\ s[Len(s)] = " " THEN TrimRight(SubSeq(s, 1, Len(s) - 1)) ELSE s

Trim(s) == TrimRight(TrimLeft(s))

\* String.prototype.includes: q occurs in s as a contiguous substring.
Includes(s, q) ==
    \E i \in 1..(Len(s) - Len(q) + 1) : SubSeq(s, i, i + Len(q) - 1) = q

Digit(n) == <<"0", "1", "2", "3", "4", "5", "6", "7", "8", "9">>[n + 1]

\* String(n) for a whole number n >= 0.
RECURSIVE NumToString(_)
NumToString(n) ==
    IF n < 10 THEN <<Digit(n)>> ELSE NumToString(n \div 10) \o <<Digit(n % 10)>>

\* String(v) of a Postcode field value: a whole number, a string or null.
JsString(v) ==
    CASE v.k = "num" -> NumToString(v.n)
      [] v.k = "str" -> v.s
      [] OTHER -> <<"n", "u", "l", "l">>

\* Collation rank of a character: blank, digits, then letters, a lower-case
\* letter just before its upper-case form.
CharRank(c) ==
    CASE c = " " -> 0
      [] c = "0" -> 1 [] c = "1" -> 2 [] c = "2" -> 3 [] c = "3" -> 4
      [] c = "4" -> 5 [] c = "5" -> 6 [] c = "6" -> 7 [] c = "7" -> 8
      [] c = "8" -> 9 [] c = "9" -> 10
      [] c = "c" -> 20 [] c = "d" -> 22
      [] c = "e" -> 24 [] c = "E" -> 25
      [] c = "n" -> 30 [] c = "o" -> 32
      [] c = "p" -> 34 [] c = "P" -> 35
      [] c = "s" -> 40 [] c = "S" -> 41
      [] c = "t" -> 42
      [] OTHER -> 50

\* a.localeCompare(b): -1, 0 or 1, character by character.
RECURSIVE LocaleCompare(_, _)
LocaleCompare(a, b) ==
    IF a = <<>> /\ b = <<>> THEN 0
    ELSE IF a = <<>> THEN -1
    ELSE IF b = <<>> THEN 1
    ELSE IF CharRank(Head(a)) < CharRank(Head(b)) THEN -1
    ELSE IF CharRank(Head(a)) > CharRank(Head(b)) THEN 1
    ELSE LocaleCompare(Tail(a), Tail(b))

(***************************************************************************)
(* _calculateMortgage (lines 114-135)                                      *)
(***************************************************************************)
\* A variant of NumPayments that takes the years for the periods.
NumPaymentsInYears(termYears) == RMul(termYears, Whole(1))

\* termYears * 12 is a whole number of periods for every term the model draws.
NumPayments(termYears) == RMul(termYears, Whole(12))

\* line 133: monthlyInterest * factor / (factor - 1)
PaymentFromFactor(monthlyInterest, factor) ==
    RDiv(RMul(monthlyInterest, factor), RSub(factor, Whole(1)))

\* lines 132-134, Principal & Interest
PrincipalAndInterest(monthlyInterest, monthlyRate, numPayments) ==
    [payment |-> PaymentFromFactor(monthlyInterest,
                                   RPow(RAdd(Whole(1), monthlyRate), numPayments.n)),
     interest |-> monthlyInterest]

\* lines 124-134, once monthlyRate and monthlyInterest are known
WithInterest(monthlyInterest, monthlyRate, numPayments, type) ==
    IF type = "IO"
    THEN [payment |-> monthlyInterest, interest |-> monthlyInterest]
    ELSE PrincipalAndInterest(monthlyInterest, monthlyRate, numPayments)

\* lines 123-124
WithMonthlyRate(loanAmount, monthlyRate, numPayments, type) ==
    WithInterest(RMul(loanAmount, monthlyRate), monthlyRate, numPayments, type)

_calculateMortgage(loanAmount, annualRate, termYears, type) ==
    IF RLe(loanAmount, Whole(0)) THEN [payment |-> Whole(0), interest |-> Whole(0)]
    ELSE IF annualRate = Whole(0)
    THEN [payment |-> RDiv(loanAmount, NumPayments(termYears)), interest |-> Whole(0)]
    ELSE WithMonthlyRate(loanAmount, RDiv(RDiv(annualRate, Whole(100)), Whole(12)),
                         NumPayments(termYears), type)

(***************************************************************************)
(* State                                                                   *)
(***************************************************************************)
VARIABLES
    loadState,        \* _initialize: "pending", "loaded" or "failed"
    geojsonData,      \* this.geojsonData: [loaded, features]
    geojsonLayer,     \* this.geojsonLayer: [exists, style]
    housingData,      \* this.housingData, in property enumeration order
    suburbLookup,     \* this.suburbLookup: key -> suburb names
    depositType,      \* this.depositType
    mortgageType,     \* this.mortgageType
    interestRate,     \* parseFloat of the interestRate input's value
    loanTerm,         \* parseFloat of the loanTerm input's value
    depositPercent,   \* parseFloat of the depositPercent input's value
    depositAmount,    \* parseFloat of the depositAmount input's value
    sortedDataList,   \* this.sortedDataList
    headerClass,      \* classList of each th[data-sort]
    tableBody,        \* the rows of #data-table-body
    searchInput,      \* the value of #search-input
    lastSort,         \* the sort most recently applied to sortedDataList
    mortgageCall,     \* a call of _calculateMortgage: arguments and result
    styleCall,        \* a call of _styleFeature: the feature's data and the style
    consoleError      \* the errors _initialize passed to console.error

vars == <<loadState, geojsonData, geojsonLayer, housingData, suburbLookup,
          depositType, mortgageType, interestRate, loanTerm, depositPercent,
          depositAmount, sortedDataList, headerClass, tableBody, searchInput,
          lastSort, mortgageCall, styleCall, consoleError>>

\* The loan configuration _updateAllRatios reads (lines 138-142, 150, 155).
Config ==
    [interestRate |-> interestRate, loanTermYears |-> loanTerm,
     depositPercent |-> depositPercent, depositAmount |-> depositAmount,
     depositType |-> depositType, mortgageType |-> mortgageType]

\* A parsed CSV row of the sales/rent dataset, before any recompute.
AreaRow(postcode, price, rent, q1, q3) ==
    [Postcode |-> postcode,
     yearly_median_sales_price_000s |-> price,
     yearly_median_weekly_rent |-> rent,
     yearly_first_quartile_sales_000s |-> q1,
     yearly_third_quartile_sales_000s |-> q3,
     calculated_weekly_payment |-> Undefined,
     calculated_weekly_interest |-> Undefined,
     rent_vs_payment_ratio |-> Undefined,
     yearly_first_quartile_weekly_payment |-> Undefined,
     yearly_third_quartile_weekly_payment |-> Undefined]

\* A Postcode field as the CSV parser types it: numeric text becomes a number,
\* any other text stays a string, an empty field is null.
PostcodeNumber(n) == [k |-> "num", n |-> n, s |-> <<>>]
PostcodeString(s) == [k |-> "str", n |-> 0, s |-> s]
PostcodeNull == [k |-> "null", n |-> 0, s |-> <<>>]

(***************************************************************************)
(* _updateAllRatios and _calculateQuartilePayments (lines 137-187)         *)
(***************************************************************************)
\* (field || 0) * 1000
SalesPrice(field) == IF Falsy(field) THEN Whole(0) ELSE RMul(field, Whole(1000))

\* A variant of HasSalesPrice that lets every area through.
HasSalesPriceAlways(salesPrice) == salesPrice = salesPrice

\* if (salesPrice)
HasSalesPrice(salesPrice) == ~Falsy(salesPrice)

\* lines 150-152
ActualDeposit(cfg, salesPrice) ==
    IF cfg.depositType = "percent"
    THEN RMul(salesPrice, RDiv(cfg.depositPercent, Whole(100)))
    ELSE cfg.depositAmount

\* mortgage.payment * 12 / 52
Weekly(monthly) == RDiv(RMul(monthly, Whole(12)), Whole(52))

\* A variant of RatioOf that divides the wrong way round.
RatioOfInverted(rent, weeklyPayment) ==
    IF Falsy(rent) THEN Null
    ELSE IF RLt(Whole(0), weeklyPayment) THEN RDiv(weeklyPayment, rent)
    ELSE Infinity

\* lines 159-165
RatioOf(rent, weeklyPayment) ==
    IF Falsy(rent) THEN Null
    ELSE IF RLt(Whole(0), weeklyPayment) THEN RDiv(rent, weeklyPayment)
    ELSE Infinity

\* The weekly payment of one quartile sale price (lines 174-176, 183-185).
QuartilePayment(qSales, deposit, rate, term, type) ==
    LET qLoan == RMax(Whole(0), RSub(qSales, deposit))
    IN  Weekly(_calculateMortgage(qLoan, rate, term, type).payment)

\* lines 172-179
FirstQuartilePayment(q1Sales, deposit, rate, term, type) ==
    IF ~Falsy(q1Sales) THEN QuartilePayment(q1Sales, deposit, rate, term, type)
    ELSE Null

\* A variant of ThirdQuartilePayment that keeps a payment computed earlier.
ThirdQuartilePaymentKept(old, q3Sales, deposit, rate, term, type) ==
    IF IsNum(old) THEN old
    ELSE IF ~Falsy(q3Sales) THEN QuartilePayment(q3Sales, deposit, rate, term, type)
    ELSE old

\* lines 180-186: nothing is assigned when q3Sales is absent or zero.
ThirdQuartilePayment(old, q3Sales, deposit, rate, term, type) ==
    IF ~Falsy(q3Sales) THEN QuartilePayment(q3Sales, deposit, rate, term, type)
    ELSE old

_calculateQuartilePayments(data, deposit, rate, term, type) ==
    [data EXCEPT
        !.yearly_first_quartile_weekly_payment =
            FirstQuartilePayment(SalesPrice(data.yearly_first_quartile_sales_000s),
                                 deposit, rate, term, type),
        !.yearly_third_quartile_weekly_payment =
            ThirdQuartilePayment(@, SalesPrice(data.yearly_third_quartile_sales_000s),
                                 deposit, rate, term, type)]

\* The body of the loop of _updateAllRatios for one area (lines 145-167).
\* lines 157-165
WithMortgage(data, mortgage) ==
    [data EXCEPT
        !.calculated_weekly_payment = Weekly(mortgage.payment),
        !.calculated_weekly_interest = Weekly(mortgage.interest),
        !.rent_vs_payment_ratio =
            RatioOf(data.yearly_median_weekly_rent, Weekly(mortgage.payment))]

\* lines 154-166
WithDeposit(data, cfg, salesPrice, actualDeposit) ==
    _calculateQuartilePayments(
        WithMortgage(data,
                     _calculateMortgage(RMax(Whole(0), RSub(salesPrice, actualDeposit)),
                                        cfg.interestRate, cfg.loanTermYears,
                                        cfg.mortgageType)),
        actualDeposit, cfg.interestRate, cfg.loanTermYears, cfg.mortgageType)

\* lines 149-167
WithSalesPrice(data, cfg, salesPrice) ==
    IF HasSalesPrice(salesPrice)
    THEN WithDeposit(data, cfg, salesPrice, ActualDeposit(cfg, salesPrice))
    ELSE data

\* The body of the loop of _updateAllRatios for one area (lines 145-167).
UpdateArea(data, cfg) ==
    WithSalesPrice(data, cfg, SalesPrice(data.yearly_median_sales_price_000s))

_updateAllRatios(hd, cfg) == [i \in 1..Len(hd) |-> UpdateArea(hd[i], cfg)]

(***************************************************************************)
(* Map styling (lines 189-232)                                             *)
(***************************************************************************)
Neutral == "#ccc"
Band1 == "#ef4444"
Band2 == "#f97316"
Band3 == "#fbbf24"
Band4 == "#22c55e"
Band5 == "#0f766e"

\* A variant of _getColor whose second threshold is strict.
_getColorStrict(ratio) ==
    IF ratio.k = "null" \/ ratio.k = "undefined" THEN Neutral
    ELSE IF ratio.k = "inf" \/ RLe(Num(125, 100), ratio) THEN Band1
    ELSE IF RLt(Num(105, 100), ratio) THEN Band2
    ELSE IF RLe(Num(95, 100), ratio) THEN Band3
    ELSE IF RLe(Num(75, 100), ratio) THEN Band4
    ELSE Band5

_getColor(ratio) ==
    IF ratio.k = "null" \/ ratio.k = "undefined" THEN Neutral
    ELSE IF ratio.k = "inf" \/ RLe(Num(125, 100), ratio) THEN Band1
    ELSE IF RLe(Num(105, 100), ratio) THEN Band2
    ELSE IF RLe(Num(95, 100), ratio) THEN Band3
    ELSE IF RLe(Num(75, 100), ratio) THEN Band4
    ELSE Band5

\* this.housingData[postcode]: the record kept under that key, if any.
HasKey(hd, key) == \E i \in 1..Len(hd) : JsString(hd[i].Postcode) = key
Lookup(hd, key) == hd[CHOOSE i \in 1..Len(hd) : JsString(hd[i].Postcode) = key]

\* The ratio _styleFeature reads for a feature: data ? data.ratio : null.
FeatureRatio(hasData, data) == IF hasData THEN data.rent_vs_payment_ratio ELSE Null

_styleFeature(hd, code) ==
    _getColor(IF HasKey(hd, code) THEN FeatureRatio(TRUE, Lookup(hd, code))
              ELSE FeatureRatio(FALSE, Null))

\* L.geoJson(this.geojsonData, {style}): one styled layer per feature; no
\* feature at all while the data is still null.
_renderMap(gd, hd) ==
    [exists |-> TRUE,
     style |-> [code \in (IF gd.loaded THEN gd.features ELSE {}) |->
                   _styleFeature(hd, code)]]

\* geojsonLayer.setStyle(...): restyles the features the layer holds.
SetStyle(layer, hd) ==
    [layer EXCEPT !.style = [code \in DOMAIN layer.style |-> _styleFeature(hd, code)]]

(***************************************************************************)
(* The table (lines 247-324)                                               *)
(***************************************************************************)
HeaderKeys == {"suburb", "postcode", "ratio", "rent", "mortgage_payment"}

PostcodeLabel == <<"P", "o", "s", "t", "c", "o", "d", "e", " ">>

\* lines 250-256
Row(d, lookup) ==
    LET key == JsString(d.Postcode)
    IN  [postcode |-> d.Postcode,
         suburb |-> IF key \in DOMAIN lookup THEN lookup[key]
                    ELSE PostcodeLabel \o key,
         ratio |-> d.rent_vs_payment_ratio,
         rent |-> d.yearly_median_weekly_rent,
         mortgage_payment |-> d.calculated_weekly_payment]

\* line 249
Listed(d, lookup) ==
    \/ JsString(d.Postcode) \in DOMAIN lookup
    \/ ~Falsy(d.yearly_median_weekly_rent)
    \/ ~Falsy(d.yearly_median_sales_price_000s)

RECURSIVE FilterSeq(_, _)
FilterSeq(seq, keep) ==
    IF seq = <<>> THEN <<>>
    ELSE IF Head(seq) \in keep THEN <<Head(seq)>> \o FilterSeq(Tail(seq), keep)
    ELSE FilterSeq(Tail(seq), keep)

Rows(kept, lookup) == [i \in 1..Len(kept) |-> Row(kept[i], lookup)]

ProjectRows(hd, lookup) ==
    Rows(FilterSeq(hd, {d \in {hd[i] : i \in 1..Len(hd)} : Listed(d, lookup)}), lookup)

\* The sign of x - y for numbers and Infinity; NaN (Infinity - Infinity),
\* which sort reads as +0, is 0.
SignOfDifference(x, y) ==
    IF x.k = "inf" /\ y.k = "inf" THEN 0
    ELSE IF x.k = "inf" THEN 1
    ELSE IF y.k = "inf" THEN -1
    ELSE RCmp(x, y)

\* v ?? -1
OrMinusOne(v) == IF IsNullish(v) THEN Whole(-1) ELSE v

\* A variant of DefaultCompare that ranks a missing ratio as 1.
DefaultCompareMissingAsOne(a, b) ==
    SignOfDifference(IF IsNullish(b.ratio) THEN Whole(1) ELSE b.ratio,
                     IF IsNullish(a.ratio) THEN Whole(1) ELSE a.ratio)

\* line 258: (a, b) => (b.ratio ?? -1) - (a.ratio ?? -1)
DefaultCompare(a, b) == SignOfDifference(OrMinusOne(b.ratio), OrMinusOne(a.ratio))

\* valA == null, for the value of a row under a column key.
ColumnIsNull(row, key) ==
    CASE key = "ratio" -> IsNullish(row.ratio)
      [] key = "rent" -> IsNullish(row.rent)
      [] key = "mortgage_payment" -> IsNullish(row.mortgage_payment)
      [] OTHER -> FALSE

\* valA - valB for two non-null values of a column; a postcode that is not
\* numeric makes the difference NaN, which sort reads as +0.
ColumnDifference(a, b, key) ==
    CASE key = "ratio" -> SignOfDifference(a.ratio, b.ratio)
      [] key = "rent" -> SignOfDifference(a.rent, b.rent)
      [] key = "mortgage_payment" ->
            SignOfDifference(a.mortgage_payment, b.mortgage_payment)
      [] OTHER ->
            IF a.postcode.k = "num" /\ b.postcode.k = "num"
            THEN RCmp(Whole(a.postcode.n), Whole(b.postcode.n))
            ELSE 0

\* A variant of ColumnCompare whose null checks follow the direction.
ColumnCompareNullsFlip(a, b, key, direction) ==
    IF ColumnIsNull(a, key) THEN direction
    ELSE IF ColumnIsNull(b, key) THEN -direction
    ELSE IF key = "suburb" THEN LocaleCompare(a.suburb, b.suburb) * direction
    ELSE ColumnDifference(a, b, key) * direction

\* lines 310-321: the comparator of _sortColumn.
ColumnCompare(a, b, key, direction) ==
    IF ColumnIsNull(a, key) THEN 1
    ELSE IF ColumnIsNull(b, key) THEN -1
    ELSE IF key = "suburb" THEN LocaleCompare(a.suburb, b.suburb) * direction
    ELSE ColumnDifference(a, b, key) * direction

\* The comparator in use: the default one (key "default") or a column's.
Compare(a, b, by) ==
    IF by.key = "default" THEN DefaultCompare(a, b)
    ELSE ColumnCompare(a, b, by.key, by.dir)

\* Array.prototype.sort as a stable insertion sort: each element moves left
\* past the elements the comparator puts it before.
RECURSIVE InsertAt(_, _, _, _)
InsertAt(sorted, x, i, by) ==
    IF i >= 1 /\ Compare(x, sorted[i], by) < 0 THEN InsertAt(sorted, x, i - 1, by)
    ELSE SubSeq(sorted, 1, i) \o <<x>> \o SubSeq(sorted, i + 1, Len(sorted))

Insert(sorted, x, by) == InsertAt(sorted, x, Len(sorted), by)

RECURSIVE SortBy(_, _)
SortBy(list, by) ==
    IF list = <<>> THEN <<>>
    ELSE Insert(SortBy(SubSeq(list, 1, Len(list) - 1), by), list[Len(list)], by)

\* lines 248-258: the projected rows in the default order.
PreparedList(hd, lookup) == SortBy(ProjectRows(hd, lookup), [key |-> "default", dir |-> 0])

\* line 264: ratioHeader.classList.add('sorted-desc')
MarkRatioHeader(classes) == [classes EXCEPT !["ratio"] = @ \cup {"sorted-desc"}]

\* line 296: the predicate of _filterTable on one row whose postcode is a string.
Matches(item, lowerQuery) ==
    \/ Includes(item.postcode.s, lowerQuery)
    \/ Includes(ToLowerCase(item.suburb), lowerQuery)

\* item.postcode.includes is not a function when the postcode is a number:
\* the filter callback throws a TypeError on the first such row.
FilterThrows(list) == \E i \in 1..Len(list) : list[i].postcode.k = "num"

\* lines 294-297
FilteredBy(list, lowerQuery) ==
    FilterSeq(list, {r \in {list[i] : i \in 1..Len(list)} : Matches(r, lowerQuery)})

FilteredData(list, query) == FilteredBy(list, Trim(ToLowerCase(query)))

(***************************************************************************)
(* _loadData (lines 77-99)                                                 *)
(***************************************************************************)
\* postcode && postcode !== 'null'
KeepsPostcode(item) == JsString(item.Postcode) # <<>> /\ item.Postcode.k # "null"

\* this.housingData[postcode] = item: an existing key keeps its place, a new
\* whole-number key goes in ascending order before every other key, any other
\* new key goes last (the enumeration order of an object's own properties).
RECURSIVE PutProperty(_, _)
PutProperty(hd, item) ==
    IF hd = <<>> THEN <<item>>
    ELSE IF JsString(Head(hd).Postcode) = JsString(item.Postcode)
         THEN <<item>> \o Tail(hd)
    ELSE IF item.Postcode.k = "num"
            /\ (Head(hd).Postcode.k # "num" \/ item.Postcode.n < Head(hd).Postcode.n)
            /\ ~HasKey(hd, JsString(item.Postcode))
         THEN <<item>> \o hd
    ELSE <<Head(hd)>> \o PutProperty(Tail(hd), item)

\* lines 86-91
RECURSIVE LoadHousing(_, _)
LoadHousing(hd, rows) ==
    IF rows = <<>> THEN hd
    ELSE LoadHousing(IF KeepsPostcode(Head(rows)) THEN PutProperty(hd, Head(rows)) ELSE hd,
                     Tail(rows))

\* lines 93-98: the suburb rows kept, as key -> Suburbs (a later row wins).
KeptSuburbs(rows) ==
    {i \in 1..Len(rows) : KeepsPostcode(rows[i]) /\ rows[i].Suburbs # <<>>}

LoadSuburbs(lookup, rows) ==
    LET new == {JsString(rows[i].Postcode) : i \in KeptSuburbs(rows)}
        last(key) == CHOOSE i \in KeptSuburbs(rows) :
                        /\ JsString(rows[i].Postcode) = key
                        /\ \A j \in KeptSuburbs(rows) :
                              JsString(rows[j].Postcode) = key => j <= i
    IN  [key \in DOMAIN lookup \cup new |->
            IF key \in new THEN rows[last(key)].Suburbs ELSE lookup[key]]

(***************************************************************************)
(* Inputs: the files served and the values a user can enter                *)
(***************************************************************************)
MaxAreas == 2
MaxPriceK == 2
MaxPayments == 2

Eden == <<"E", "d", "e", "n">>
Scone == <<"S", "c", "o", "n", "e">>

\* Rows of the sales/rent dataset the table scenarios draw from: a full row,
\* a row with rent only, one with a price only, one whose postcode is not
\* numeric, and one with neither rent nor price.
TablePool ==
    <<AreaRow(PostcodeNumber(20), Whole(MaxPriceK), Whole(300), Whole(1), Whole(MaxPriceK + 1)),
      AreaRow(PostcodeNumber(21), Null, Whole(250), Null, Null),
      AreaRow(PostcodeNumber(22), Whole(1), Null, Null, Whole(1)),
      AreaRow(PostcodeString(<<"E", "2">>), Whole(1), Whole(300), Whole(1), Null),
      AreaRow(PostcodeNumber(23), Null, Null, Null, Null)>>

\* Rows every dataset ends with: one with no data and no suburb entry, and
\* one with no postcode.
TrailingRows ==
    <<AreaRow(PostcodeNumber(24), Null, Null, Null, Null),
      AreaRow(PostcodeNull, Whole(1), Whole(300), Null, Null)>>

\* The rows of pool at the indices in S, in the pool's order.
RECURSIVE Pick(_, _, _)
Pick(pool, S, i) ==
    IF i > Len(pool) THEN <<>>
    ELSE (IF i \in S THEN <<pool[i]>> ELSE <<>>) \o Pick(pool, S, i + 1)

\* Every choice of at most MaxAreas rows of the pool.
TableDatasets ==
    {Pick(TablePool, S, 1) \o TrailingRows :
        S \in {T \in SUBSET (1..Len(TablePool)) : Cardinality(T) <= MaxAreas}}

\* Rows of the sales/rent dataset the recompute scenarios draw from: every
\* combination of a present, zero and absent price, rent and quartile price
\* that the branches of _updateAllRatios tell apart.
RecomputePool ==
    <<AreaRow(PostcodeNumber(20), Whole(MaxPriceK), Whole(300), Whole(1), Whole(MaxPriceK + 1)),
      AreaRow(PostcodeNumber(21), Null, Whole(250), Whole(1), Whole(2)),
      AreaRow(PostcodeNumber(22), Whole(0), Whole(250), Null, Null),
      AreaRow(PostcodeNumber(23), Whole(1), Null, Null, Whole(2)),
      AreaRow(PostcodeNumber(26), Whole(1), Whole(0), Whole(0), Whole(0)),
      AreaRow(PostcodeNumber(27), Whole(2), Whole(300), Whole(2), Null),
      AreaRow(PostcodeNumber(28), Whole(1), Whole(100), Whole(1), Whole(1))>>

RecomputeDatasets ==
    {Pick(RecomputePool, S, 1) \o TrailingRows :
        S \in {T \in SUBSET (1..Len(RecomputePool)) : Cardinality(T) <= MaxAreas}}

\* The suburb lookup file: a repeated postcode, a row without names.
SuburbRows ==
    <<[Postcode |-> PostcodeNumber(20), Suburbs |-> Scone],
      [Postcode |-> PostcodeNumber(23), Suburbs |-> Eden],
      [Postcode |-> PostcodeNumber(25), Suburbs |-> <<>>],
      [Postcode |-> PostcodeNumber(20), Suburbs |-> Eden]>>

SuburbDatasets == {SuburbRows}

\* POA_CODE21 of the boundary file's features.
FeatureCodes == {NumToString(20), NumToString(21), NumToString(25)}

Rates == {Whole(0), Whole(12)}
Terms == {Num(k, 12) : k \in 1..MaxPayments}
Percents == {Whole(0), Whole(20), Whole(100)}
Amounts == {Whole(1000), Whole(1000 * (MaxPriceK + 1))}

Queries == {<<>>, <<"E">>, <<" ", "2", " ">>, <<"n">>}

IdleMortgageCall ==
    [state |-> "idle", loanAmount |-> Whole(0), annualRate |-> Whole(0),
     termYears |-> Whole(1), type |-> "PI", payment |-> Whole(0), interest |-> Whole(0)]

IdleStyleCall == [state |-> "idle", hasData |-> FALSE, ratio |-> Null, fillColor |-> Neutral]

(***************************************************************************)
(* Init: the state the constructor leaves (lines 7-27, 29-31), the data    *)
(* load pending, the inputs at whatever values the page gives them.        *)
(***************************************************************************)
InitApp(R, T, P, A) ==
    /\ loadState = "pending"
    /\ geojsonData = [loaded |-> FALSE, features |-> {}]
    /\ geojsonLayer = [exists |-> FALSE, style |-> <<>>]
    /\ housingData = <<>>
    /\ suburbLookup = <<>>
    /\ depositType = "percent"
    /\ mortgageType = "PI"
    /\ interestRate \in R
    /\ loanTerm \in T
    /\ depositPercent \in P
    /\ depositAmount \in A
    /\ sortedDataList = <<>>
    /\ headerClass = [key \in HeaderKeys |-> {}]
    /\ tableBody = <<>>
    /\ searchInput = <<>>
    /\ lastSort = [key |-> "none", dir |-> 0]
    /\ consoleError = <<>>

(***************************************************************************)
(* updateMapAndTable (lines 199-213) under the configuration cfg, on the   *)
(* data hd, lookup and boundaries gd.                                      *)
(***************************************************************************)
UpdateMapAndTable(hd, lookup, gd, cfg) ==
    /\ housingData' = _updateAllRatios(hd, cfg)
    /\ geojsonLayer' = IF geojsonLayer.exists THEN SetStyle(geojsonLayer, housingData')
                       ELSE _renderMap(gd, housingData')
    /\ sortedDataList' = PreparedList(housingData', lookup)
    /\ tableBody' = sortedDataList'
    /\ headerClass' = MarkRatioHeader(headerClass)
    /\ lastSort' = [key |-> "default", dir |-> -1]

\* The 'input' listeners of the four number inputs (lines 57-60).
InputInterestRate(R) ==
    \E v \in R :
        /\ interestRate' = v
        /\ UpdateMapAndTable(housingData, suburbLookup, geojsonData,
                             [Config EXCEPT !.interestRate = v])
        /\ UNCHANGED <<consoleError, loadState, geojsonData, suburbLookup, depositType, mortgageType,
                       loanTerm, depositPercent, depositAmount, searchInput,
                       mortgageCall, styleCall>>

InputLoanTerm(T) ==
    \E v \in T :
        /\ loanTerm' = v
        /\ UpdateMapAndTable(housingData, suburbLookup, geojsonData,
                             [Config EXCEPT !.loanTermYears = v])
        /\ UNCHANGED <<consoleError, loadState, geojsonData, suburbLookup, depositType, mortgageType,
                       interestRate, depositPercent, depositAmount, searchInput,
                       mortgageCall, styleCall>>

InputDepositPercent(P) ==
    \E v \in P :
        /\ depositPercent' = v
        /\ UpdateMapAndTable(housingData, suburbLookup, geojsonData,
                             [Config EXCEPT !.depositPercent = v])
        /\ UNCHANGED <<consoleError, loadState, geojsonData, suburbLookup, depositType, mortgageType,
                       interestRate, loanTerm, depositAmount, searchInput,
                       mortgageCall, styleCall>>

InputDepositAmount(A) ==
    \E v \in A :
        /\ depositAmount' = v
        /\ UpdateMapAndTable(housingData, suburbLookup, geojsonData,
                             [Config EXCEPT !.depositAmount = v])
        /\ UNCHANGED <<consoleError, loadState, geojsonData, suburbLookup, depositType, mortgageType,
                       interestRate, loanTerm, depositPercent, searchInput,
                       mortgageCall, styleCall>>

\* lines 491-495
_handleMortgageTypeChange ==
    \E type \in {"PI", "IO"} :
        /\ mortgageType' = type
        /\ UpdateMapAndTable(housingData, suburbLookup, geojsonData,
                             [Config EXCEPT !.mortgageType = type])
        /\ UNCHANGED <<consoleError, loadState, geojsonData, suburbLookup, depositType,
                       interestRate, loanTerm, depositPercent, depositAmount,
                       searchInput, mortgageCall, styleCall>>

\* lines 497-503
_handleDepositTypeChange ==
    \E type \in {"percent", "amount"} :
        /\ depositType' = type
        /\ UpdateMapAndTable(housingData, suburbLookup, geojsonData,
                             [Config EXCEPT !.depositType = type])
        /\ UNCHANGED <<consoleError, loadState, geojsonData, suburbLookup, mortgageType,
                       interestRate, loanTerm, depositPercent, depositAmount,
                       searchInput, mortgageCall, styleCall>>

\* lines 293-299; the handler ends at the TypeError when the callback throws.
_filterTable ==
    \E query \in Queries :
        /\ searchInput' = query
        /\ tableBody' = IF FilterThrows(sortedDataList) THEN tableBody
                        ELSE FilteredData(sortedDataList, query)
        /\ UNCHANGED <<consoleError, loadState, geojsonData, geojsonLayer, housingData, suburbLookup,
                       depositType, mortgageType, interestRate, loanTerm,
                       depositPercent, depositAmount, sortedDataList, headerClass,
                       lastSort, mortgageCall, styleCall>>

\* lines 301-324
_sortColumn ==
    \E key \in HeaderKeys :
        LET isAsc == "sorted-asc" \in headerClass[key]
            direction == IF isAsc THEN -1 ELSE 1
        IN  /\ headerClass' = [h \in HeaderKeys |->
                                  IF h # key THEN {}
                                  ELSE IF isAsc THEN {"sorted-desc"} ELSE {"sorted-asc"}]
            /\ sortedDataList' = SortBy(sortedDataList, [key |-> key, dir |-> direction])
            /\ tableBody' = sortedDataList'
            /\ lastSort' = [key |-> key, dir |-> direction]
            /\ UNCHANGED <<consoleError, loadState, geojsonData, geojsonLayer, housingData,
                           suburbLookup, depositType, mortgageType, interestRate,
                           loanTerm, depositPercent, depositAmount, searchInput,
                           mortgageCall, styleCall>>

\* lines 32-34: the three loads succeed, then the first updateMapAndTable.
LoadSucceeds(datasets) ==
    /\ loadState = "pending"
    /\ \E affordability \in datasets, suburbs \in SuburbDatasets :
          /\ geojsonData' = [loaded |-> TRUE, features |-> FeatureCodes]
          /\ suburbLookup' = LoadSuburbs(suburbLookup, suburbs)
          /\ UpdateMapAndTable(LoadHousing(housingData, affordability),
                               suburbLookup', geojsonData', Config)
    /\ loadState' = "loaded"
    /\ UNCHANGED <<consoleError, depositType, mortgageType, interestRate, loanTerm, depositPercent,
                   depositAmount, searchInput, mortgageCall, styleCall>>

\* The three loads Promise.all waits for (lines 78-82).
Loads == {"geojson", "suburbs", "affordability"}

\* A variant of LoadFails in which the rows were stored before the rejection.
LoadFailsAfterStoring ==
    /\ loadState = "pending"
    /\ loadState' = "failed"
    /\ \E affordability \in TableDatasets :
          housingData' = LoadHousing(housingData, affordability)
    /\ consoleError' = Append(consoleError, "affordability")
    /\ UNCHANGED <<geojsonData, geojsonLayer, suburbLookup, depositType,
                   mortgageType, interestRate, loanTerm, depositPercent, depositAmount,
                   sortedDataList, headerClass, tableBody, searchInput, lastSort,
                   mortgageCall, styleCall>>

\* lines 35-37: one of the loads rejects, so Promise.all rejects before line
\* 84 runs; the error is logged and nothing else happens.
LoadFails ==
    /\ loadState = "pending"
    /\ loadState' = "failed"
    /\ \E rejected \in Loads : consoleError' = Append(consoleError, rejected)
    /\ UNCHANGED <<geojsonData, geojsonLayer, housingData, suburbLookup, depositType,
                   mortgageType, interestRate, loanTerm, depositPercent, depositAmount,
                   sortedDataList, headerClass, tableBody, searchInput, lastSort,
                   mortgageCall, styleCall>>

Init ==
    /\ InitApp({Whole(12)}, {Num(1, 12)}, {Whole(20)}, {Whole(1000)})
    /\ mortgageCall = IdleMortgageCall
    /\ styleCall = IdleStyleCall

Next ==
    \/ LoadSucceeds(TableDatasets)
    \/ LoadFails
    \/ InputInterestRate({Whole(12)})
    \/ InputLoanTerm({Num(1, 12)})
    \/ InputDepositPercent({Whole(20)})
    \/ InputDepositAmount({Whole(1000)})
    \/ _handleMortgageTypeChange
    \/ _handleDepositTypeChange
    \/ _filterTable
    \/ _sortColumn

Spec == Init /\ [][Next]_vars

(***************************************************************************)
(* The recompute scenarios: the data load and every configuration handler, *)
(* over the full ranges of the configuration.                              *)
(***************************************************************************)
InitRecompute ==
    /\ InitApp(Rates, Terms, Percents, Amounts)
    /\ mortgageCall = IdleMortgageCall
    /\ styleCall = IdleStyleCall

NextRecompute ==
    \/ LoadSucceeds(RecomputeDatasets)
    \/ LoadFails
    \/ InputInterestRate(Rates)
    \/ InputLoanTerm(Terms)
    \/ InputDepositPercent(Percents)
    \/ InputDepositAmount(Amounts)
    \/ _handleMortgageTypeChange
    \/ _handleDepositTypeChange

SpecRecompute == InitRecompute /\ [][NextRecompute]_vars

(***************************************************************************)
(* _calculateMortgage on its own: the arguments are drawn at the start and *)
(* the call returns its result.                                            *)
(***************************************************************************)
MaxLoanStep == 4

MortgageArgs ==
    {[IdleMortgageCall EXCEPT !.state = "args", !.loanAmount = Whole(250 * l),
                              !.annualRate = r, !.termYears = t, !.type = ty] :
        l \in 0..MaxLoanStep, r \in Rates \cup {Whole(6)}, t \in Terms \cup {Whole(1)},
        ty \in {"PI", "IO"}}

\* The terms of a whole year and more are drawn only where no power is taken.
InitMortgage ==
    /\ InitApp({Whole(12)}, {Num(1, 12)}, {Whole(20)}, {Whole(1000)})
    /\ mortgageCall \in {c \in MortgageArgs :
                            c.termYears.d = 1 => (c.type = "IO" \/ c.annualRate.n = 0)}
    /\ styleCall = IdleStyleCall

Returned(call, result) ==
    [call EXCEPT !.state = "done", !.payment = result.payment,
                 !.interest = result.interest]

CallMortgage ==
    /\ mortgageCall.state = "args"
    /\ mortgageCall' = Returned(mortgageCall,
                                _calculateMortgage(mortgageCall.loanAmount,
                                                   mortgageCall.annualRate,
                                                   mortgageCall.termYears,
                                                   mortgageCall.type))
    /\ UNCHANGED <<consoleError, loadState, geojsonData, geojsonLayer, housingData, suburbLookup,
                   depositType, mortgageType, interestRate, loanTerm, depositPercent,
                   depositAmount, sortedDataList, headerClass, tableBody, searchInput,
                   lastSort, styleCall>>

SpecMortgage == InitMortgage /\ [][CallMortgage]_vars

(***************************************************************************)
(* _styleFeature on its own: one area holds a ratio drawn at the start and *)
(* a feature inside or outside the data is styled.                         *)
(***************************************************************************)
MaxRatioStep == 30

\* Ratios from -2/20 to MaxRatioStep/20, with the values that are no number.
Ratios == {Num(k, 20) : k \in -2..MaxRatioStep} \cup {Null, Undefined, Infinity}

StyledArea(ratio) ==
    [AreaRow(PostcodeNumber(20), Whole(1), Whole(300), Null, Null)
        EXCEPT !.rent_vs_payment_ratio = ratio]

InitStyle ==
    /\ InitApp({Whole(12)}, {Num(1, 12)}, {Whole(20)}, {Whole(1000)})
    /\ mortgageCall = IdleMortgageCall
    /\ \E ratio \in Ratios, hasData \in BOOLEAN :
          styleCall = [state |-> "args", hasData |-> hasData, ratio |-> ratio,
                       fillColor |-> Neutral]

\* _styleFeature for a feature of postcode 20, the data holding that postcode
\* or not.
CallStyleFeature ==
    /\ styleCall.state = "args"
    /\ styleCall' =
          [styleCall EXCEPT
              !.state = "done",
              !.fillColor =
                  _styleFeature(IF styleCall.hasData THEN <<StyledArea(styleCall.ratio)>>
                                ELSE <<>>,
                                NumToString(20))]
    /\ UNCHANGED <<consoleError, loadState, geojsonData, geojsonLayer, housingData, suburbLookup,
                   depositType, mortgageType, interestRate, loanTerm, depositPercent,
                   depositAmount, sortedDataList, headerClass, tableBody, searchInput,
                   lastSort, mortgageCall>>

SpecStyle == InitStyle /\ [][CallStyleFeature]_vars

(***************************************************************************)
(* Properties of the recompute pass                                        *)
(***************************************************************************)
Areas == 1..Len(housingData)

Positive(v) == IsNum(v) /\ v.n > 0
IsZero(v) == IsNum(v) /\ v.n = 0

\* The raw fields of an area, as loaded, with no computed field set.
Raw(d) ==
    AreaRow(d.Postcode, d.yearly_median_sales_price_000s, d.yearly_median_weekly_rent,
            d.yearly_first_quartile_sales_000s, d.yearly_third_quartile_sales_000s)

\* C1: for every area, an absent or zero rent leaves no ratio; a positive
\* rent with a computed weekly payment of 0 gives the ratio +Infinity; a
\* positive rent with a positive weekly payment gives rent / weeklyPayment.
C1_RatioRule ==
    \A i \in Areas :
        LET d == housingData[i]
            rent == d.yearly_median_weekly_rent
            payment == d.calculated_weekly_payment
        IN  /\ Falsy(rent) => IsNullish(d.rent_vs_payment_ratio)
            /\ Positive(rent) /\ IsZero(payment) => d.rent_vs_payment_ratio = Infinity
            /\ Positive(rent) /\ Positive(payment) =>
                  /\ IsNum(d.rent_vs_payment_ratio)
                  /\ RMul(d.rent_vs_payment_ratio, payment) = rent

\* A loaded dataset in which one area has a zero payment and an infinite
\* ratio and another a positive payment and a finite ratio.
C1_Witness ==
    /\ loadState = "loaded"
    /\ \E i \in Areas :
          /\ Positive(housingData[i].yearly_median_weekly_rent)
          /\ IsZero(housingData[i].calculated_weekly_payment)
          /\ housingData[i].rent_vs_payment_ratio = Infinity
    /\ \E i \in Areas :
          /\ Positive(housingData[i].yearly_median_weekly_rent)
          /\ Positive(housingData[i].calculated_weekly_payment)
          /\ IsNum(housingData[i].rent_vs_payment_ratio)

\* C2: in every state the computed fields of every area are those one
\* recompute of its raw fields under the current configuration gives, and a
\* recompute that leaves the configuration as it was changes no area.
C2_Fresh == \A i \in Areas : housingData[i] = UpdateArea(Raw(housingData[i]), Config)

C2_PureFunction ==
    /\ []C2_Fresh
    /\ [][loadState = "loaded" /\ Config' = Config => housingData' = housingData]_vars

\* Both mode switches have been made since construction, on an area whose
\* payments are all computed.
C2_Witness ==
    /\ loadState = "loaded"
    /\ mortgageType = "IO"
    /\ depositType = "amount"
    /\ \E i \in Areas :
          /\ Positive(housingData[i].calculated_weekly_payment)
          /\ IsNum(housingData[i].yearly_first_quartile_weekly_payment)
          /\ Positive(housingData[i].yearly_third_quartile_weekly_payment)

\* The weekly payment the per-area derivation gives for the sale price q
\* itself: deposit from q in percent mode, the flat amount otherwise.
PaymentOfPrice(q, cfg) ==
    Weekly(_calculateMortgage(
               RMax(Whole(0),
                    RSub(q, IF cfg.depositType = "percent"
                            THEN RDiv(RMul(q, cfg.depositPercent), Whole(100))
                            ELSE cfg.depositAmount)),
               cfg.interestRate, cfg.loanTermYears, cfg.mortgageType).payment)

\* C3: for an area with a median sale price, each quartile weekly payment
\* whose quartile sale price q is present and nonzero equals the per-area
\* derivation applied to q itself.
C3_QuartileOwnDeposit ==
    \A i \in Areas :
        LET d == housingData[i]
        IN  ~Falsy(d.yearly_median_sales_price_000s) =>
              /\ ~Falsy(d.yearly_first_quartile_sales_000s) =>
                    d.yearly_first_quartile_weekly_payment =
                        PaymentOfPrice(SalesPrice(d.yearly_first_quartile_sales_000s), Config)
              /\ ~Falsy(d.yearly_third_quartile_sales_000s) =>
                    d.yearly_third_quartile_weekly_payment =
                        PaymentOfPrice(SalesPrice(d.yearly_third_quartile_sales_000s), Config)

\* C4: an area whose median sale price is absent or zero keeps its weekly
\* payment, weekly interest and ratio unset, whatever its rent.
C4_SkippedUnset ==
    \A i \in Areas :
        Falsy(housingData[i].yearly_median_sales_price_000s) =>
            /\ housingData[i].calculated_weekly_payment = Undefined
            /\ housingData[i].calculated_weekly_interest = Undefined
            /\ housingData[i].rent_vs_payment_ratio = Undefined

\* After the load and both mode switches: an area with a rent and a zero
\* price, and one with a rent and no price, both still without a payment.
C4_Witness ==
    /\ loadState = "loaded"
    /\ mortgageType = "IO"
    /\ depositType = "amount"
    /\ \E i \in Areas :
          /\ IsZero(housingData[i].yearly_median_sales_price_000s)
          /\ Positive(housingData[i].yearly_median_weekly_rent)
          /\ housingData[i].calculated_weekly_payment = Undefined
    /\ \E i \in Areas :
          /\ housingData[i].yearly_median_sales_price_000s = Null
          /\ Positive(housingData[i].yearly_median_weekly_rent)
          /\ housingData[i].rent_vs_payment_ratio = Undefined

(***************************************************************************)
(* Properties of _calculateMortgage                                        *)
(***************************************************************************)
\* C5: a returned call agrees with the reference: a zero loan gives payment
\* 0 and interest 0; otherwise a zero rate gives payment * termYears * 12 =
\* loanAmount and interest 0; otherwise an interest-only loan gives payment
\* = interest with payment * 100 * 12 = loanAmount * rate.
C5_Reference ==
    mortgageCall.state = "done" =>
        LET c == mortgageCall
        IN  IF c.loanAmount.n = 0 THEN c.payment = Whole(0) /\ c.interest = Whole(0)
            ELSE IF c.annualRate.n = 0
            THEN /\ RMul(RMul(c.payment, c.termYears), Whole(12)) = c.loanAmount
                 /\ c.interest = Whole(0)
            ELSE c.type = "IO" =>
                    /\ c.payment = c.interest
                    /\ RMul(RMul(c.payment, Whole(100)), Whole(12))
                          = RMul(c.loanAmount, c.annualRate)

\* A returned interest-only call at a positive rate and a positive loan.
C5_Witness ==
    /\ mortgageCall.state = "done"
    /\ mortgageCall.type = "IO"
    /\ mortgageCall.annualRate.n > 0
    /\ mortgageCall.loanAmount.n > 0
    /\ mortgageCall.payment.n > 0

(***************************************************************************)
(* Properties of the table                                                 *)
(***************************************************************************)
\* x >= y for ratios, a missing ratio counting as -1 and Infinity as the top.
RankAtLeast(x, y) ==
    IF IsNullish(y) THEN IsNullish(x) \/ x.k = "inf" \/ x.n * 1 >= -x.d
    ELSE IF IsNullish(x) THEN IsNum(y) /\ y.n <= -y.d
    ELSE IF x.k = "inf" THEN TRUE
    ELSE IF y.k = "inf" THEN FALSE
    ELSE RCmp(x, y) >= 0

DefaultOrdered(list) ==
    \A i, j \in 1..Len(list) : i < j => RankAtLeast(list[i].ratio, list[j].ratio)

\* C6: while the list is as the last recompute left it, its ratios are
\* non-increasing with a missing ratio ranked as -1, so every row with a
\* non-negative or infinite ratio comes before every row without a ratio.
C6_DefaultOrder ==
    lastSort.key = "default" =>
        /\ DefaultOrdered(sortedDataList)
        /\ \A i, j \in 1..Len(sortedDataList) :
              /\ IsNullish(sortedDataList[i].ratio)
              /\ ~IsNullish(sortedDataList[j].ratio)
              => j < i

\* A recompute that followed a sort by rent, on a list with a ratio and
\* without.
C6_Witness ==
    /\ lastSort.key = "default"
    /\ headerClass["rent"] # {}
    /\ \E i, j \in 1..Len(sortedDataList) :
          /\ IsNullish(sortedDataList[i].ratio)
          /\ ~IsNullish(sortedDataList[j].ratio)

\* C7: after a sort by a column, in either direction, every row whose value
\* in that column is null or undefined comes after every row with a value.
C7_NullsLast ==
    lastSort.key \in HeaderKeys =>
        \A i, j \in 1..Len(sortedDataList) :
            /\ ColumnIsNull(sortedDataList[i], lastSort.key)
            /\ ~ColumnIsNull(sortedDataList[j], lastSort.key)
            => j < i

\* A descending sort by rent of a list with a rent and without.
C7_Witness ==
    /\ lastSort = [key |-> "rent", dir |-> -1]
    /\ \E i, j \in 1..Len(sortedDataList) :
          /\ IsNullish(sortedDataList[i].rent)
          /\ ~IsNullish(sortedDataList[j].rent)

\* The column the list is sorted by, and its direction: the ratio column,
\* descending, after a recompute.
SortedColumn(ls) == IF ls.key = "default" THEN "ratio" ELSE ls.key
SortedDirection(ls) == ls.dir

\* The rows with a value under key follow that column's order in direction dir.
OrderedBy(list, key, dir) ==
    \A i, j \in 1..Len(list) :
        /\ i < j
        /\ ~ColumnIsNull(list[i], key)
        /\ ~ColumnIsNull(list[j], key)
        => IF key = "suburb" THEN LocaleCompare(list[i].suburb, list[j].suburb) * dir <= 0
           ELSE ColumnDifference(list[i], list[j], key) * dir <= 0

\* C8: selecting a column other than the one the list is sorted by sorts
\* ascending by it, selecting the sorted column again reverses the
\* direction, and the rows with a value follow the chosen direction.
C8_SortToggle ==
    [][lastSort' # lastSort /\ lastSort'.key \in HeaderKeys =>
          /\ SortedColumn(lastSort) # lastSort'.key => lastSort'.dir = 1
          /\ SortedColumn(lastSort) = lastSort'.key =>
                lastSort'.dir = -SortedDirection(lastSort)
          /\ OrderedBy(sortedDataList', lastSort'.key, lastSort'.dir)]_vars

\* The rows q selects by the stated rule: q, compared case-insensitively,
\* occurs in the postal code or in the display label.
SelectedRows(list, q) ==
    FilterSeq(list,
              {r \in {list[i] : i \in 1..Len(list)} :
                  \/ Includes(ToLowerCase(JsString(r.postcode)), ToLowerCase(q))
                  \/ Includes(ToLowerCase(r.suburb), ToLowerCase(q))})

\* C9: entering a query q shows exactly the rows of the list that q selects.
C9_FilterRule ==
    [][searchInput' # searchInput => tableBody' = SelectedRows(sortedDataList', searchInput')]_vars

(***************************************************************************)
(* Properties of the map styling                                           *)
(***************************************************************************)
\* The band of a ratio by the stated thresholds, 0 for neutral, 5 for the
\* highest band, 1 for the lowest.
BandOf(ratio) ==
    IF IsNullish(ratio) THEN 0
    ELSE IF ratio.k = "inf" \/ 4 * ratio.n >= 5 * ratio.d THEN 5
    ELSE IF 20 * ratio.n >= 21 * ratio.d THEN 4
    ELSE IF 20 * ratio.n >= 19 * ratio.d THEN 3
    ELSE IF 4 * ratio.n >= 3 * ratio.d THEN 2
    ELSE 1

BandColor(band) == <<Neutral, Band5, Band4, Band3, Band2, Band1>>[band + 1]
ColorBand(color) == CHOOSE band \in 0..5 : BandColor(band) = color

\* C10: a styled feature gets the neutral fill when it has no data or no
\* ratio and otherwise the fill of its ratio's band, and no larger ratio
\* gets a lower band.
C10_Bands ==
    styleCall.state = "done" =>
        /\ styleCall.fillColor =
              BandColor(IF styleCall.hasData THEN BandOf(styleCall.ratio) ELSE 0)
        /\ styleCall.hasData /\ ~IsNullish(styleCall.ratio) =>
              \A r \in Ratios :
                  ~IsNullish(r) /\ RankAtLeast(r, styleCall.ratio) =>
                      ColorBand(_getColor(r)) >= ColorBand(styleCall.fillColor)

\* A styled feature whose ratio sits on the 1.05 threshold.
C10_Witness ==
    /\ styleCall.state = "done"
    /\ styleCall.hasData
    /\ styleCall.ratio = Num(21, 20)
    /\ styleCall.fillColor = Band2

(***************************************************************************)
(* Properties of the data load                                             *)
(***************************************************************************)
\* C11: a failed load is reported, and the step that fails it adds no area
\* record and no suburb entry, stores no boundaries, writes no computed
\* field and runs no recompute: data, list, table, headers and layer stay as
\* they were, and no data is held in any state after the failure.
C11_FailureLeavesState ==
    /\ [](loadState = "failed" =>
            /\ consoleError # <<>>
            /\ housingData = <<>>
            /\ suburbLookup = <<>>
            /\ ~geojsonData.loaded
            /\ sortedDataList = <<>>)
    /\ [][loadState = "pending" /\ loadState' = "failed" =>
            /\ Len(consoleError') = Len(consoleError) + 1
            /\ UNCHANGED <<geojsonData, geojsonLayer, housingData, suburbLookup,
                           sortedDataList, tableBody, headerClass, lastSort>>]_vars

\* The sales and rent load failed after an input event had already run an
\* update on the empty data.
C11_Witness ==
    /\ loadState = "failed"
    /\ consoleError = <<"affordability">>
    /\ lastSort.key = "default"

(***************************************************************************)
(* Properties of the header markers                                        *)
(***************************************************************************)
MarkedHeaders == {h \in HeaderKeys : headerClass[h] # {}}

MarkedDirection(classes) == IF "sorted-asc" \in classes THEN 1 ELSE -1

\* C12: at most one header carries a sort marker, that header carries
\* exactly one of sorted-asc and sorted-desc, and the rows with a value in
\* that column follow its order in the marked direction.
C12_OneMarker ==
    /\ Cardinality(MarkedHeaders) <= 1
    /\ \A h \in MarkedHeaders :
          /\ Cardinality(headerClass[h]) = 1
          /\ OrderedBy(sortedDataList, h, MarkedDirection(headerClass[h]))

(***************************************************************************)
(* Properties of the table body                                            *)
(***************************************************************************)
\* C13: the table shows exactly the rows of the sorted list that the most
\* recently entered query selects (every row when the query is empty), in
\* the order of the sorted list.
C13_TableShowsMatches == tableBody = SelectedRows(sortedDataList, searchInput)

(***************************************************************************)
(* Properties of the map layer                                             *)
(***************************************************************************)
\* C14: once the load has succeeded and its update has run, the map layer
\* exists and holds a styled layer for every feature of the loaded
\* boundaries, whatever events came before the load completed.
C14_LayerFromLoadedData ==
    loadState = "loaded" =>
        /\ geojsonLayer.exists
        /\ DOMAIN geojsonLayer.style = geojsonData.features

====
